---- MODULE Spec2Model ----
(***************************************************************************)
(* The waitlist form of src/src/components/ContactForm.tsx: the field      *)
(* values held by react-hook-form, the zod validation schema, the payload  *)
(* mapping and the submission workflow of onSubmit (isSubmitting,          *)
(* isSubmitted, the outbound request, the toast and the reset timer).      *)
(*                                                                         *)
(* Strings are TLA+ strings; a character of s is SubSeq(s, i, i).          *)
(* One action is one browser task: a DOM event handler or a promise        *)
(* continuation run to its next await on the network or a timer.           *)
(***************************************************************************)
EXTENDS Integers, Sequences, FiniteSets, TLC

VARIABLES
    values,        \* react-hook-form's field values (form.getValues())
    formState,     \* react-hook-form's formState: isSubmitted, errors
    isSubmitting,  \* useState(false), line 50: the latest value set
    isSubmitted,   \* useState(false), line 51: the latest value set
    shown,         \* the isSubmitting/isSubmitted of the last committed render
    inflight,      \* the onSubmit calls suspended at an await, in call order
    timers,        \* the pending setTimeout callbacks: ms elapsed of each
    toasts,        \* the notifications emitted so far, in order
    submits,       \* how many submit events the form has handled
    validated,     \* how many of them passed the schema
    sent,          \* how many times fetch was called
    edits          \* how many field changes the form has handled

vars == <<values, formState, isSubmitting, isSubmitted, shown, inflight,
          timers, toasts, submits, validated, sent, edits>>

----------------------------------------------------------------------------
(* Bounds of the model *)

\* submit events in one behaviour
MaxSubmits == 2
\* field edits in one behaviour
MaxEdits == 5
\* the items of each checkbox group, Select and RadioGroup the user
\* operates: the first MaxOptions
MaxOptions == 2
\* the fields the user changes from their defaults at one time, beside the
\* fields whose default fails the schema
MaxExtras == 1

----------------------------------------------------------------------------
(* Strings *)

\* a value a field has when its key is absent from the values object
undefined == "<undefined>"

Char(s, i) == SubSeq(s, i, i)

Letters ==
    {"a", "b", "c", "d", "e", "f", "g", "h", "i", "j", "k", "l", "m",
     "n", "o", "p", "q", "r", "s", "t", "u", "v", "w", "x", "y", "z"}

Digits == {"0", "1", "2", "3", "4", "5", "6", "7", "8", "9"}

\* email() as it would be were every string let through
IsEmailAnyString(s) == s # undefined

\* z.string().email(): one "@"; a local part of letters, digits and _'+-.
\* that neither starts nor ends with a dot; no two dots in a row; a domain
\* of dot-separated labels of letters, digits and hyphens, each starting
\* with a letter or digit; a last label of two or more letters
IsEmail(s) ==
    LET n    == Len(s)
        ats  == {i \in 1..n : Char(s, i) = "@"}
        p    == CHOOSE i \in ats : TRUE
        dots == {i \in (p + 1)..n : Char(s, i) = "."}
        last == CHOOSE i \in dots : \A j \in dots : j <= i
    IN  /\ s # undefined
        /\ Cardinality(ats) = 1
        /\ p > 1
        /\ Char(s, 1) # "."
        /\ \A i \in 1..(n - 1) : ~(Char(s, i) = "." /\ Char(s, i + 1) = ".")
        /\ \A i \in 1..(p - 1) :
              Char(s, i) \in Letters \cup Digits \cup {"_", "'", "+", "-", "."}
        /\ Char(s, p - 1) # "."
        /\ dots # {}
        /\ \A i \in (p + 1)..n : Char(s, i) \in Letters \cup Digits \cup {"-", "."}
        /\ p < n
        /\ Char(s, p + 1) \in Letters \cup Digits
        /\ \A i \in dots : i < n /\ Char(s, i + 1) \in Letters \cup Digits
        /\ n - last >= 2
        /\ \A i \in (last + 1)..n : Char(s, i) \in Letters

\* Array.prototype.includes
Includes(arr, x) == \E i \in 1..Len(arr) : arr[i] = x

\* Array.prototype.filter((value) => value !== x)
RECURSIVE Without(_, _)
Without(arr, x) ==
    IF arr = <<>> THEN <<>>
    ELSE IF Head(arr) = x THEN Without(Tail(arr), x)
         ELSE <<Head(arr)>> \o Without(Tail(arr), x)

\* Array.prototype.join(', ')
RECURSIVE Join(_)
Join(arr) ==
    IF arr = <<>> THEN ""
    ELSE IF Len(arr) = 1 THEN arr[1]
         ELSE arr[1] \o ", " \o Join(Tail(arr))

\* data.x || '': undefined and the empty string are falsy
OrEmpty(x) == IF x = undefined \/ x = "" THEN "" ELSE x

----------------------------------------------------------------------------
(* The schema and the default values *)

Fields ==
    {"fullName", "email", "phoneNumber", "ageGroup", "gamingPlatforms",
     "gamingFrequency", "recentGames", "otherRecentGames", "keepPlaying",
     "otherKeepPlaying", "desiredFeatures", "otherDesiredFeatures",
     "specificFeature", "earlyTester", "contactPreference", "wouldRefer",
     "friendEmail"}

ageGroupEnum == {"under18", "18-24", "25-34", "35-44", "45plus"}
gamingFrequencyEnum == {"daily", "weekly", "occasionally", "rarely"}
earlyTesterEnum == {"yes", "no"}
wouldReferEnum == {"yes", "no", "maybe"}

NameError == "Name must be at least 2 characters."
EmailError == "Please enter a valid email address."
PlatformError == "Please select at least one platform."
ContactError == "Please select at least one contact method."
EnumError == "Invalid enum value."

\* the issue the schema raises for field f of candidate v, "" when none
Issue(v, f) ==
    CASE f = "fullName" ->
            IF v.fullName # undefined /\ Len(v.fullName) >= 2 THEN "" ELSE NameError
      [] f = "email" -> IF IsEmail(v.email) THEN "" ELSE EmailError
      [] f = "ageGroup" -> IF v.ageGroup \in ageGroupEnum THEN "" ELSE EnumError
      [] f = "gamingPlatforms" ->
            IF Len(v.gamingPlatforms) >= 1 THEN "" ELSE PlatformError
      [] f = "gamingFrequency" ->
            IF v.gamingFrequency \in gamingFrequencyEnum THEN "" ELSE EnumError
      [] f = "earlyTester" ->
            IF v.earlyTester \in earlyTesterEnum THEN "" ELSE EnumError
      [] f = "contactPreference" ->
            IF Len(v.contactPreference) >= 1 THEN "" ELSE ContactError
      [] f = "wouldRefer" ->
            IF v.wouldRefer \in wouldReferEnum THEN "" ELSE EnumError
      [] f = "friendEmail" ->
            IF v.friendEmail = undefined \/ IsEmail(v.friendEmail)
            THEN "" ELSE EmailError
      [] OTHER -> ""

\* waitlistFormSchema through zodResolver: the errors object, field -> message
waitlistFormSchema(v) ==
    [f \in {g \in Fields : Issue(v, g) # ""} |-> Issue(v, f)]

NoErrors == [f \in {} |-> ""]

Passes(v) == waitlistFormSchema(v) = NoErrors

\* default values as they would be with the three required entries filled in
prefilledValues ==
    [fullName |-> "Al", email |-> "a@b.co", phoneNumber |-> "",
     ageGroup |-> "25-34", gamingPlatforms |-> <<"android">>,
     gamingFrequency |-> "occasionally",
     recentGames |-> <<>>, otherRecentGames |-> undefined,
     keepPlaying |-> <<>>, otherKeepPlaying |-> undefined,
     desiredFeatures |-> <<>>, otherDesiredFeatures |-> undefined,
     specificFeature |-> undefined, earlyTester |-> "yes",
     contactPreference |-> <<"email">>, wouldRefer |-> "maybe",
     friendEmail |-> undefined]

defaultValues ==
    [fullName |-> "", email |-> "", phoneNumber |-> "", ageGroup |-> "25-34",
     gamingPlatforms |-> <<>>, gamingFrequency |-> "occasionally",
     recentGames |-> <<>>, otherRecentGames |-> undefined,
     keepPlaying |-> <<>>, otherKeepPlaying |-> undefined,
     desiredFeatures |-> <<>>, otherDesiredFeatures |-> undefined,
     specificFeature |-> undefined, earlyTester |-> "yes",
     contactPreference |-> <<"email">>, wouldRefer |-> "maybe",
     friendEmail |-> undefined]

----------------------------------------------------------------------------
(* The option lists the form renders *)

gamingPlatforms == <<"android", "ios", "web", "new">>
recentGames == <<"uno", "ludo", "pool", "teenpatti", "monopoly">>
keepPlayingFactors ==
    <<"friends", "rules", "fast", "customization", "leaderboards", "rewards">>
desiredFeatures ==
    <<"private-rooms", "quick-match", "tournaments", "avatar", "chat",
      "skins", "xp", "history", "challenge", "spectator">>
contactPreferences == <<"email", "sms", "whatsapp", "discord", "social">>

\* the checkbox groups: field -> the ids of its checkboxes, in render order
CheckboxGroups ==
    [gamingPlatforms |-> gamingPlatforms, recentGames |-> recentGames,
     keepPlaying |-> keepPlayingFactors, desiredFeatures |-> desiredFeatures,
     contactPreference |-> contactPreferences]

\* the Select and the RadioGroups: field -> the values of its items
ChoiceGroups ==
    [ageGroup |-> <<"under18", "18-24", "25-34", "35-44", "45plus">>,
     gamingFrequency |-> <<"daily", "weekly", "occasionally", "rarely">>,
     earlyTester |-> <<"yes", "no">>,
     wouldRefer |-> <<"yes", "no", "maybe">>]

\* the text inputs: field -> the texts the user leaves in it
Typed ==
    [fullName |-> {"", "A", "Al"},
     email |-> {"", "not-an-email", "a@b.co"},
     phoneNumber |-> {"", "555"},
     otherRecentGames |-> {"", "chess"},
     otherKeepPlaying |-> {"", "art"},
     otherDesiredFeatures |-> {"", "bots"},
     specificFeature |-> {"", "undo"},
     friendEmail |-> {"", "f@g", "f@g.io"}]

\* the items of a list the user operates
Operated(list) == {list[i] : i \in {j \in 1..Len(list) : j <= MaxOptions}}

\* the clock readings of new Date().toISOString()
Instants == {"2025-06-01T10:00:00.000Z", "2025-06-01T10:00:07.000Z"}

\* the HTTP statuses the endpoint answers with
Statuses == {200, 201, 404, 500}

\* response.ok
Ok(status) == 200 <= status /\ status <= 299

\* setTimeout(..., 3000), and the grain of the model's clock
ResetDelay == 3000
TickMs == ResetDelay \div 3

----------------------------------------------------------------------------
(* The state after the first render *)

Init ==
    /\ values = defaultValues
    /\ formState = [isSubmitted |-> FALSE, errors |-> NoErrors]
    /\ isSubmitting = FALSE
    /\ isSubmitted = FALSE
    /\ shown = [isSubmitting |-> FALSE, isSubmitted |-> FALSE]
    /\ inflight = <<>>
    /\ timers = <<>>
    /\ toasts = <<>>
    /\ submits = 0
    /\ validated = 0
    /\ sent = 0
    /\ edits = 0

\* the form is on screen: the last render did not take the isSubmitted branch
FormShown == ~shown.isSubmitted

\* no state update awaits its render. React renders in the task that set the
\* state or in one it posts at once, so a keystroke, a click on a field, a
\* network answer or a timer, which come later, find the render committed;
\* only a further submit event dispatched at once can run before it
Committed == shown = [isSubmitting |-> isSubmitting, isSubmitted |-> isSubmitted]

\* the submit button is on screen and not disabled
ButtonEnabled == FormShown /\ ~shown.isSubmitting

----------------------------------------------------------------------------
(* Field edits *)

\* formState as it would be were a changed field not validated again: the
\* errors of the last submit stay
RevalidatedNever(v, f) == formState

\* react-hook-form, reValidateMode onChange: once a submit was attempted,
\* the changed field's error is updated from the schema
Revalidated(v, f) ==
    LET old  == formState.errors
        keep == (DOMAIN old \ {f}) \cup (IF Issue(v, f) # "" THEN {f} ELSE {})
    IN  IF formState.isSubmitted
        THEN [formState EXCEPT
                 !.errors = [g \in keep |-> IF g = f THEN Issue(v, f) ELSE old[g]]]
        ELSE formState

\* the fields whose default value fails the schema
Required == {f \in Fields : Issue(defaultValues, f) # ""}

\* the other fields that differ from their defaults, f apart
Extras(f) ==
    {g \in Fields \ (Required \cup {f}) : values[g] # defaultValues[g]}

\* field.onChange(v) as it would be were the data of the calls in flight
\* the form's own values object, which the edit writes
FieldChangeShared(f, v) ==
    /\ Committed
    /\ FormShown
    /\ values' = [values EXCEPT ![f] = v]
    /\ formState' = Revalidated(values', f)
    /\ edits' = edits + 1
    /\ inflight' =
           [i \in 1..Len(inflight) |-> [inflight[i] EXCEPT !.data[f] = v]]
    /\ UNCHANGED <<isSubmitting, isSubmitted, shown, timers, toasts,
                   submits, validated, sent>>

\* field.onChange(v) of field f
FieldChange(f, v) ==
    /\ Committed
    /\ FormShown
    /\ values' = [values EXCEPT ![f] = v]
    /\ formState' = Revalidated(values', f)
    /\ edits' = edits + 1
    /\ UNCHANGED <<isSubmitting, isSubmitted, shown, inflight, timers, toasts,
                   submits, validated, sent>>

\* the edits the model follows: MaxEdits of them, and beside the required
\* fields at most MaxExtras fields away from their defaults
Within(f) ==
    /\ edits < MaxEdits
    /\ f \in Required \/ Cardinality(Extras(f)) < MaxExtras

\* <Input {...field} />: a change event leaves text v in the input of f
onChange ==
    \E f \in DOMAIN Typed : \E v \in Typed[f] :
        /\ Within(f)
        /\ v # OrEmpty(values[f])
        /\ FieldChange(f, v)

\* <Select onValueChange>, <RadioGroup onValueChange>: another item is picked
onValueChange ==
    \E f \in DOMAIN ChoiceGroups : \E v \in Operated(ChoiceGroups[f]) :
        /\ Within(f)
        /\ v # values[f]
        /\ FieldChange(f, v)

\* the array as it would be were the id appended whatever checked is
ToggledAppends(arr, id, checked) == Append(arr, id)

\* the array a checkbox hands to field.onChange, lines 308-316
Toggled(arr, id, checked) ==
    IF checked THEN Append(arr, id) ELSE Without(arr, id)

\* <Checkbox onCheckedChange>: the checkbox id of group f is clicked; it
\* reports the negation of its checked prop, field.value.includes(id)
onCheckedChange ==
    \E f \in DOMAIN CheckboxGroups : \E id \in Operated(CheckboxGroups[f]) :
        /\ Within(f)
        /\ FieldChange(f, Toggled(values[f], id, ~Includes(values[f], id)))

----------------------------------------------------------------------------
(* Submission *)

\* structuredData as it would be with friend_email copied as it is, its
\* || '' forgotten
structuredDataRaw(data, now) ==
    [full_name |-> data.fullName,
     email |-> data.email,
     phone_number |-> OrEmpty(data.phoneNumber),
     age_group |-> data.ageGroup,
     gaming_platforms |-> Join(data.gamingPlatforms),
     gaming_frequency |-> data.gamingFrequency,
     recent_games |-> Join(data.recentGames),
     other_recent_games |-> OrEmpty(data.otherRecentGames),
     keep_playing_factors |-> Join(data.keepPlaying),
     other_keep_playing |-> OrEmpty(data.otherKeepPlaying),
     desired_features |-> Join(data.desiredFeatures),
     other_desired_features |-> OrEmpty(data.otherDesiredFeatures),
     specific_feature_request |-> OrEmpty(data.specificFeature),
     early_tester |-> data.earlyTester,
     contact_preference |-> Join(data.contactPreference),
     would_refer |-> data.wouldRefer,
     friend_email |-> data.friendEmail,
     submitted_at |-> now]

\* structuredData, lines 78-97, for the validated data and the clock reading
structuredData(data, now) ==
    [full_name |-> data.fullName,
     email |-> data.email,
     phone_number |-> OrEmpty(data.phoneNumber),
     age_group |-> data.ageGroup,
     gaming_platforms |-> Join(data.gamingPlatforms),
     gaming_frequency |-> data.gamingFrequency,
     recent_games |-> Join(data.recentGames),
     other_recent_games |-> OrEmpty(data.otherRecentGames),
     keep_playing_factors |-> Join(data.keepPlaying),
     other_keep_playing |-> OrEmpty(data.otherKeepPlaying),
     desired_features |-> Join(data.desiredFeatures),
     other_desired_features |-> OrEmpty(data.otherDesiredFeatures),
     specific_feature_request |-> OrEmpty(data.specificFeature),
     early_tester |-> data.earlyTester,
     contact_preference |-> Join(data.contactPreference),
     would_refer |-> data.wouldRefer,
     friend_email |-> OrEmpty(data.friendEmail),
     submitted_at |-> now]

\* the fetch call of lines 99-108: the request as it leaves, and the
\* onSubmit call that awaits it (data is the parameter it closes over)
Request(data, now) ==
    [data |-> data, body |-> [data |-> structuredData(data, now)], pc |-> "fetch"]

\* onSubmit(data) up to its first await: setIsSubmitting(true), then fetch
onSubmit(data, now) ==
    /\ isSubmitting' = TRUE
    /\ inflight' = Append(inflight, Request(data, now))
    /\ sent' = sent + 1

\* handleSubmit as it would be without the resolver's verdict: onSubmit is
\* called whatever the errors are
handleSubmitUnchecked(now) ==
    /\ formState' = [isSubmitted |-> TRUE, errors |-> waitlistFormSchema(values)]
    /\ validated' = validated + (IF Passes(values) THEN 1 ELSE 0)
    /\ onSubmit(values, now)

\* form.handleSubmit(onSubmit), line 212: the resolver runs on the values
\* of the moment; onSubmit is called only when it reports no error
handleSubmit(now) ==
    /\ formState' = [isSubmitted |-> TRUE, errors |-> waitlistFormSchema(values)]
    /\ IF Passes(values)
       THEN /\ validated' = validated + 1
            /\ onSubmit(values, now)
       ELSE UNCHANGED <<validated, isSubmitting, inflight, sent>>

\* a submit event of the form: the enabled submit button is clicked, or
\* Enter is pressed in an input while the button is enabled
SubmitEvent ==
    /\ ButtonEnabled
    /\ submits' = submits + 1
    /\ \E now \in Instants : handleSubmit(now)
    /\ UNCHANGED <<values, isSubmitted, shown, timers, toasts, edits>>

\* the submit events the model follows: MaxSubmits of them
Submit ==
    /\ submits < MaxSubmits
    /\ SubmitEvent

\* React commits the pending state updates: the button's disabled attribute
\* and the branch of line 143 follow isSubmitting and isSubmitted
Render ==
    /\ ~Committed
    /\ shown' = [isSubmitting |-> isSubmitting, isSubmitted |-> isSubmitted]
    /\ UNCHANGED <<values, formState, isSubmitting, isSubmitted, inflight,
                   timers, toasts, submits, validated, sent, edits>>

Remove(seq, i) == SubSeq(seq, 1, i - 1) \o SubSeq(seq, i + 1, Len(seq))

SuccessToast == "Waitlist submission successful!"
FailureToast == "Submission failed"

\* the catch block as it would be with an automatic retry: fetch is called
\* again for the same data
FailedWithRetry(i) ==
    /\ toasts' = Append(toasts, FailureToast)
    /\ inflight' = [inflight EXCEPT ![i].pc = "fetch"]
    /\ sent' = sent + 1
    /\ UNCHANGED <<values, formState, isSubmitting, isSubmitted, shown, timers,
                   submits, validated, edits>>

\* the catch block as it would be without the finally block: isSubmitting
\* is left as it is
FailedNoFinally(i) ==
    /\ toasts' = Append(toasts, FailureToast)
    /\ inflight' = Remove(inflight, i)
    /\ UNCHANGED <<values, formState, isSubmitting, isSubmitted, shown, timers,
                   submits, validated, sent, edits>>

\* the catch block, lines 131-137, then finally, line 139, of call i
Failed(i) ==
    /\ toasts' = Append(toasts, FailureToast)
    /\ isSubmitting' = FALSE
    /\ inflight' = Remove(inflight, i)
    /\ UNCHANGED <<values, formState, isSubmitted, shown, timers,
                   submits, validated, sent, edits>>

\* lines 119-129, then finally, line 139, of call i
Succeeded(i) ==
    /\ isSubmitted' = TRUE
    /\ toasts' = Append(toasts, SuccessToast)
    /\ timers' = Append(timers, 0)
    /\ isSubmitting' = FALSE
    /\ inflight' = Remove(inflight, i)
    /\ UNCHANGED <<values, formState, shown, submits, validated, sent, edits>>

\* response.ok holds: call i goes on to await response.json(), line 116
AwaitJson(i) ==
    /\ inflight' = [inflight EXCEPT ![i].pc = "json"]
    /\ UNCHANGED <<values, formState, isSubmitting, isSubmitted, shown,
                   timers, toasts, submits, validated, sent, edits>>

\* fetch of call i rejects: the transport failed
FetchRejects ==
    /\ Committed
    /\ \E i \in 1..Len(inflight) :
        /\ inflight[i].pc = "fetch"
        /\ Failed(i)

\* fetch of call i resolves with a response of some status, lines 110-116
FetchResolves ==
    /\ Committed
    /\ \E i \in 1..Len(inflight) : \E status \in Statuses :
        /\ inflight[i].pc = "fetch"
        /\ IF Ok(status) THEN AwaitJson(i)
                         ELSE Failed(i)

\* response.json() of call i resolves: the body was JSON
JsonResolves ==
    /\ Committed
    /\ \E i \in 1..Len(inflight) :
        /\ inflight[i].pc = "json"
        /\ Succeeded(i)

\* response.json() of call i rejects: the body was not JSON
JsonRejects ==
    /\ Committed
    /\ \E i \in 1..Len(inflight) :
        /\ inflight[i].pc = "json"
        /\ Failed(i)

\* form.reset(): the values go back to defaultValues, formState is cleared
reset ==
    /\ values' = defaultValues
    /\ formState' = [isSubmitted |-> FALSE, errors |-> NoErrors]

\* the callback of lines 126-129 runs once its delay has passed
TimerFires ==
    /\ Committed
    /\ \E i \in 1..Len(timers) :
        /\ timers[i] >= ResetDelay
        /\ reset
        /\ isSubmitted' = FALSE
        /\ timers' = Remove(timers, i)
        /\ UNCHANGED <<isSubmitting, shown, inflight, toasts,
                       submits, validated, sent, edits>>

\* TickMs of time pass; a timer that is due runs before more time passes
Tick ==
    /\ Committed
    /\ timers # <<>>
    /\ \A i \in 1..Len(timers) : timers[i] < ResetDelay
    /\ timers' = [i \in 1..Len(timers) |-> timers[i] + TickMs]
    /\ UNCHANGED <<values, formState, isSubmitting, isSubmitted, shown,
                   inflight, toasts, submits, validated, sent, edits>>

Next ==
    \/ onChange
    \/ onValueChange
    \/ onCheckedChange
    \/ Submit
    \/ Render
    \/ FetchRejects
    \/ FetchResolves
    \/ JsonResolves
    \/ JsonRejects
    \/ TimerFires
    \/ Tick

Spec == Init /\ [][Next]_vars

\* every pending render is committed, every request in flight is answered,
\* time passes and a timer that is due runs; the user owes nothing
Fairness ==
    /\ WF_vars(Render)
    /\ WF_vars(FetchRejects \/ FetchResolves)
    /\ WF_vars(JsonResolves \/ JsonRejects)
    /\ WF_vars(Tick)
    /\ WF_vars(TimerFires)

FairSpec == Spec /\ Fairness

----------------------------------------------------------------------------
(* The same form followed one submit event and one edit further, the user
   changing the required fields only *)

RequiredChange ==
    \E f \in Required \cap DOMAIN Typed : \E v \in Typed[f] :
        /\ edits < MaxEdits + 1
        /\ v # OrEmpty(values[f])
        /\ FieldChange(f, v)

RequiredToggle ==
    \E f \in Required \cap DOMAIN CheckboxGroups :
        \E id \in Operated(CheckboxGroups[f]) :
            /\ edits < MaxEdits + 1
            /\ FieldChange(f, Toggled(values[f], id, ~Includes(values[f], id)))

SubmitAgain ==
    /\ submits < MaxSubmits + 1
    /\ SubmitEvent

NextRequired ==
    \/ RequiredChange
    \/ RequiredToggle
    \/ SubmitAgain
    \/ Render
    \/ FetchRejects
    \/ FetchResolves
    \/ JsonResolves
    \/ JsonRejects
    \/ TimerFires
    \/ Tick

SpecRequired == Init /\ [][NextRequired]_vars

----------------------------------------------------------------------------
(* C1 *)

\* the candidates the schema is to refuse: fullName shorter than 2
\* characters, email not of valid shape, an enum field outside its set,
\* gamingPlatforms or contactPreference empty, friendEmail present but not
\* of valid shape
FailsSchema(v) ==
    \/ v.fullName = undefined
    \/ Len(v.fullName) < 2
    \/ ~IsEmail(v.email)
    \/ v.ageGroup \notin {"under18", "18-24", "25-34", "35-44", "45plus"}
    \/ v.gamingFrequency \notin {"daily", "weekly", "occasionally", "rarely"}
    \/ v.earlyTester \notin {"yes", "no"}
    \/ v.wouldRefer \notin {"yes", "no", "maybe"}
    \/ v.gamingPlatforms = <<>>
    \/ v.contactPreference = <<>>
    \/ (v.friendEmail # undefined /\ ~IsEmail(v.friendEmail))

\* C1: a submit event on values that fail the schema sends no request and
\* does not set isSubmitting; every request in flight carries values that do
\* not fail the schema, and a request that leaves carries the values of the
\* moment of its submit event
C1_InvalidSubmitSendsNothing ==
    [][/\ (submits' = submits + 1 /\ FailsSchema(values)) =>
              /\ sent' = sent
              /\ inflight' = inflight
              /\ isSubmitting' = isSubmitting
       /\ sent' = sent + 1 =>
              /\ ~FailsSchema(values)
              /\ inflight'[Len(inflight')].data = values
       /\ \A i \in 1..Len(inflight') : ~FailsSchema(inflight'[i].data)]_vars

\* a submit event was refused for the shape of the email alone, and nothing
\* was sent
C1_Witness ==
    /\ submits = 1
    /\ sent = 0
    /\ inflight = <<>>
    /\ ~isSubmitting
    /\ values.email = "not-an-email"
    /\ DOMAIN formState.errors = {"email"}

----------------------------------------------------------------------------
(* C2 *)

\* C2: fetch is called only in the step of a submit event whose values
\* passed the schema, once, and every such event calls it: the requests
\* sent are as many as the validated submit events, and no step that is not
\* a submit event sends one
C2_OneRequestPerValidatedSubmit ==
    [][/\ sent' # sent =>
              /\ sent' = sent + 1
              /\ submits' = submits + 1
              /\ validated' = validated + 1
       /\ validated' # validated => sent' = sent + 1
       /\ Len(inflight') > Len(inflight) => sent' = sent + 1
       /\ sent' = validated']_vars

\* a request failed, nothing was sent until the user submitted again, and
\* that second submit event sent the second request
C2_Witness ==
    /\ toasts = <<FailureToast>>
    /\ submits = 2
    /\ sent = 2
    /\ Len(inflight) = 1

----------------------------------------------------------------------------
(* C3 *)

\* C3: at most one request is in flight
C3_AtMostOneInFlight == Len(inflight) <= 1

----------------------------------------------------------------------------
(* C4 *)

\* the step appends the toast t
Emits(t) ==
    /\ Len(toasts') = Len(toasts) + 1
    /\ toasts'[Len(toasts')] = t

\* C4: a call whose response had a status in the success range (it waits at
\* response.json()) ends with isSubmitted set and the success toast emitted
C4_OkStatusIsSuccess ==
    [][\A i \in 1..Len(inflight) :
           (inflight[i].pc = "json" /\ inflight' = Remove(inflight, i)) =>
               (isSubmitted' /\ Emits(SuccessToast))]_vars

----------------------------------------------------------------------------
(* C5 *)

\* C5: the step that emits the failure toast leaves isSubmitting and
\* isSubmitted false, schedules no timer and changes no field value
C5_FailureReturnsToIdle ==
    [][Emits(FailureToast) =>
           /\ ~isSubmitting'
           /\ ~isSubmitted'
           /\ timers' = timers
           /\ values' = values]_vars

----------------------------------------------------------------------------
(* C6 *)

\* the step runs the callback of a reset timer
TimerStep == Len(timers') < Len(timers)

\* C6: while isSubmitted holds a reset timer is pending; a timer fires when
\* ResetDelay has passed, not before, and the step that fires it leaves
\* every field at its default and the workflow idle; no other step but a
\* field change touches the values
C6_ResetAfterDelay ==
    [][/\ isSubmitted' => timers' # <<>>
       /\ TimerStep =>
              /\ \E i \in 1..Len(timers) :
                     timers[i] = ResetDelay /\ timers' = Remove(timers, i)
              /\ values' = defaultValues
              /\ ~isSubmitted'
              /\ ~isSubmitting'
       /\ (~TimerStep /\ edits' = edits) => values' = values]_vars

----------------------------------------------------------------------------
(* C7 *)

\* the fields the schema declares optional
Optional ==
    {"phoneNumber", "otherRecentGames", "otherKeepPlaying",
     "otherDesiredFeatures", "specificFeature", "friendEmail"}

\* C7: a submit event on values whose optional fields are each absent or
\* the empty string, and whose other fields satisfy the schema, is accepted:
\* its request is sent
C7_EmptyOptionalAccepted ==
    [][(/\ submits' = submits + 1
        /\ \A f \in Optional : values[f] \in {undefined, ""}
        /\ \A f \in Fields \ Optional : Issue(values, f) = "") =>
           sent' = sent + 1]_vars

----------------------------------------------------------------------------
(* C8 *)

\* the tags of arr, each but the first preceded by a comma and a space
CommaSpaced(arr) ==
    LET upTo[n \in 0..Len(arr)] ==
            IF n = 0 THEN ""
            ELSE IF n = 1 THEN arr[1]
                 ELSE upTo[n - 1] \o ", " \o arr[n]
    IN  upTo[Len(arr)]

\* the optional field as the payload is to carry it
Blanked(x) == IF x \in {undefined, ""} THEN "" ELSE x

\* C8: the body of every request in flight is {data: P}; P has the eighteen
\* snake-cased keys; each multi-select is its tags joined by ", ", each
\* absent or empty optional field is the empty string, every other field is
\* copied from the validated data
C8_PayloadMapping ==
    \A i \in 1..Len(inflight) :
        LET d == inflight[i].data
            b == inflight[i].body
            P == b.data
        IN  /\ DOMAIN b = {"data"}
            /\ DOMAIN P =
                   {"full_name", "email", "phone_number", "age_group",
                    "gaming_platforms", "gaming_frequency", "recent_games",
                    "other_recent_games", "keep_playing_factors",
                    "other_keep_playing", "desired_features",
                    "other_desired_features", "specific_feature_request",
                    "early_tester", "contact_preference", "would_refer",
                    "friend_email", "submitted_at"}
            /\ P.full_name = d.fullName
            /\ P.email = d.email
            /\ P.phone_number = Blanked(d.phoneNumber)
            /\ P.age_group = d.ageGroup
            /\ P.gaming_platforms = CommaSpaced(d.gamingPlatforms)
            /\ P.gaming_frequency = d.gamingFrequency
            /\ P.recent_games = CommaSpaced(d.recentGames)
            /\ P.other_recent_games = Blanked(d.otherRecentGames)
            /\ P.keep_playing_factors = CommaSpaced(d.keepPlaying)
            /\ P.other_keep_playing = Blanked(d.otherKeepPlaying)
            /\ P.desired_features = CommaSpaced(d.desiredFeatures)
            /\ P.other_desired_features = Blanked(d.otherDesiredFeatures)
            /\ P.specific_feature_request = Blanked(d.specificFeature)
            /\ P.early_tester = d.earlyTester
            /\ P.contact_preference = CommaSpaced(d.contactPreference)
            /\ P.would_refer = d.wouldRefer
            /\ P.friend_email = Blanked(d.friendEmail)
            /\ P.submitted_at \in Instants

\* a request is in flight whose payload joins two platforms, carries an
\* empty multi-select and blanks an absent optional field
C8_Witness ==
    \E i \in 1..Len(inflight) :
        /\ inflight[i].body.data.gaming_platforms = "ios, android"
        /\ inflight[i].body.data.recent_games = ""
        /\ inflight[i].data.friendEmail = undefined
        /\ inflight[i].body.data.friend_email = ""
        /\ inflight[i].body.data.contact_preference = "email"

----------------------------------------------------------------------------
(* C9 *)

Workflow(submitting, submitted) ==
    CASE submitting /\ submitted -> "Both"
      [] submitting -> "Submitting"
      [] submitted -> "Submitted"
      [] OTHER -> "Idle"

\* C9: the workflow changes only from Idle to Submitting, from Submitting
\* to Submitted or to Idle, and from Submitted to Idle; isSubmitting and
\* isSubmitted never hold together
C9_WorkflowTransitions ==
    [][LET from == Workflow(isSubmitting, isSubmitted)
           to   == Workflow(isSubmitting', isSubmitted')
       IN  /\ to # "Both"
           /\ from # to =>
                  <<from, to>> \in {<<"Idle", "Submitting">>,
                                    <<"Submitting", "Submitted">>,
                                    <<"Submitting", "Idle">>,
                                    <<"Submitted", "Idle">>}]_vars

----------------------------------------------------------------------------
(* C10 *)

\* the form is idle and can be operated: both flags are false, the render
\* is committed, the form and its enabled button are on screen
InteractiveIdle ==
    /\ ~isSubmitting
    /\ ~isSubmitted
    /\ Committed
    /\ ButtonEnabled

\* C10: with every request answered and every due timer run, the form is
\* idle and operable again and again, whatever happened before
C10_ReturnsToIdle == []<>InteractiveIdle

\* a submit event was refused by the schema, a later request failed, and the
\* form is idle and operable
C10_Witness ==
    /\ submits > validated
    /\ toasts = <<FailureToast>>
    /\ inflight = <<>>
    /\ InteractiveIdle

----------------------------------------------------------------------------
(* C11 *)

\* the multi-select fields of minimum cardinality 1, and the error of each
AtLeastOne ==
    [gamingPlatforms |-> PlatformError, contactPreference |-> ContactError]

\* C11: a submit event with gamingPlatforms or contactPreference empty sends
\* nothing and leaves that field's select-at-least-one error; selecting one
\* tag of a field that carries the error removes the error; a submit event
\* with a tag in the field and every other field satisfying the schema sends
\* its request and leaves no error
C11_SelectAtLeastOne ==
    [][\A f \in DOMAIN AtLeastOne :
           /\ (submits' = submits + 1 /\ values[f] = <<>>) =>
                  /\ sent' = sent
                  /\ inflight' = inflight
                  /\ f \in DOMAIN formState'.errors
                  /\ formState'.errors[f] = AtLeastOne[f]
           /\ (/\ f \in DOMAIN formState.errors
               /\ values[f] = <<>>
               /\ Len(values'[f]) = 1) =>
                  f \notin DOMAIN formState'.errors
           /\ (/\ submits' = submits + 1
               /\ Len(values[f]) >= 1
               /\ \A g \in Fields \ {f} : Issue(values, g) = "") =>
                  /\ sent' = sent + 1
                  /\ formState'.errors = NoErrors]_vars

\* the default "email" channel was unchecked, the submit event that followed
\* was refused for contactPreference alone, "sms" was then checked, which
\* removed the error, and nothing was sent
C11_Witness ==
    /\ submits = 1
    /\ sent = 0
    /\ formState.isSubmitted
    /\ formState.errors = NoErrors
    /\ values.contactPreference = <<"sms">>
    /\ values.fullName = "Al"
    /\ values.email = "a@b.co"
    /\ values.gamingPlatforms # <<>>
    /\ edits = MaxEdits

----------------------------------------------------------------------------
(* C12 *)

\* s has the shape of an address: something, an "@", something, a dot,
\* something, and no second "@"
AddressShape(s) ==
    \E p \in 2..Len(s) : \E d \in (p + 2)..(Len(s) - 1) :
        /\ Char(s, p) = "@"
        /\ Char(s, d) = "."
        /\ \A i \in 1..Len(s) : Char(s, i) = "@" => i = p

\* C12: the payload of every request has an email of address shape and a
\* friend_email that is empty or of address shape; a submit event on the
\* email "not-an-email" sends nothing and leaves the email-shape error
C12_EmailShape ==
    [][/\ \A i \in 1..Len(inflight') :
              LET P == inflight'[i].body.data
              IN  /\ AddressShape(P.email)
                  /\ P.friend_email = "" \/ AddressShape(P.friend_email)
       /\ (submits' = submits + 1 /\ values.email = "not-an-email") =>
              /\ sent' = sent
              /\ inflight' = inflight
              /\ "email" \in DOMAIN formState'.errors
              /\ formState'.errors.email = EmailError]_vars

\* a submit event was refused, and a later one sent a request that carries
\* an email and a friend_email, both of address shape
C12_Witness ==
    /\ submits = 2
    /\ sent = 1
    /\ Len(inflight) = 1
    /\ inflight[1].body.data.email = "a@b.co"
    /\ inflight[1].body.data.friend_email = "f@g.io"

----------------------------------------------------------------------------
(* C13 *)

\* the step completes a request: an onSubmit call runs to its end
Completes == Len(inflight') < Len(inflight)

----------------------------------------------------------------------------
(* C14 *)

\* C14: a field edit or a tag toggle changes the form's values and no
\* request; the request a submit event sends carries the mapping of the
\* values of that moment, and it is the same request, data and payload,
\* in every later step until it completes
C14_RequestIsImmutable ==
    [][/\ edits' = edits + 1 =>
              /\ values' # values
              /\ inflight' = inflight
       /\ sent' = sent + 1 =>
              /\ Len(inflight') = Len(inflight) + 1
              /\ \E now \in Instants :
                     inflight'[Len(inflight')].body =
                         [data |-> structuredData(values, now)]
       /\ ~Completes =>
              \A i \in 1..Len(inflight) :
                  /\ inflight'[i].data = inflight[i].data
                  /\ inflight'[i].body = inflight[i].body
       /\ \A i \in 1..Len(inflight') :
              inflight'[i].body.data =
                  structuredData(inflight'[i].data,
                                 inflight'[i].body.data.submitted_at)]_vars

\* with a request in flight and the button disabled, the name and the
\* platforms were changed in the form; the request carries what was
\* submitted
C14_Witness ==
    /\ Len(inflight) = 1
    /\ shown.isSubmitting
    /\ inflight[1].body.data.full_name = "Al"
    /\ inflight[1].body.data.gaming_platforms = "android"
    /\ values.fullName = "A"
    /\ values.gamingPlatforms = <<"android", "ios">>

----------------------------------------------------------------------------
(* C15 *)

\* the tags an array holds
TagSet(arr) == {arr[i] : i \in 1..Len(arr)}

\* a click on the checkbox id, whose checked prop is arr.includes(id)
Click(arr, id) == Toggled(arr, id, ~Includes(arr, id))

\* C15: every multi-select field holds no tag twice and only tags of its
\* option list; a toggle changes the membership of one tag of one field and
\* nothing else; two clicks on the same checkbox give back the same set of
\* tags, whatever array the field has come to hold
C15_ToggleKeepsASet ==
    [][\A f \in DOMAIN CheckboxGroups :
           LET options == TagSet(CheckboxGroups[f])
               old     == TagSet(values[f])
               new     == TagSet(values'[f])
           IN  /\ Cardinality(new) = Len(values'[f])
               /\ new \subseteq options
               /\ (edits' = edits + 1 /\ values'[f] # values[f]) =>
                      /\ \E id \in options :
                             \/ id \notin old /\ new = old \cup {id}
                             \/ id \in old /\ new = old \ {id}
                      /\ \A g \in Fields \ {f} : values'[g] = values[g]
               /\ (values'[f] # values[f] \/ edits = 0) =>
                      \A id \in options :
                          LET once == TagSet(Click(values'[f], id))
                          IN  /\ TagSet(Click(Click(values'[f], id), id)) = new
                              /\ id \in once <=> id \notin new
                              /\ once \ {id} = new \ {id}]_vars

\* four toggles of gamingPlatforms and nothing else: "android" was checked,
\* unchecked and checked again around "ios", and the field holds the two
\* tags once each
C15_Witness ==
    /\ edits = 4
    /\ values.gamingPlatforms = <<"ios", "android">>
    /\ \A f \in Fields \ {"gamingPlatforms"} : values[f] = defaultValues[f]

----------------------------------------------------------------------------
(* C16 *)

\* C16: while isSubmitted holds no field is edited and no submit event is
\* handled; a reset timer is pending only while isSubmitted holds, so the
\* values its callback discards are those the form had when the workflow
\* became Submitted, never values entered after it was Idle again
C16_ResetDiscardsOwnSubmission ==
    [][/\ isSubmitted =>
              /\ edits' = edits
              /\ submits' = submits
       /\ timers # <<>> => isSubmitted
       /\ (timers # <<>> /\ ~TimerStep) => values' = values]_vars

----------------------------------------------------------------------------
(* C17 *)

\* C17: a submit event on the default values sends nothing and leaves the
\* errors of fullName, email and gamingPlatforms; the automatic reset leaves
\* the default values; a request leaves only when the name, the email and
\* the platforms differ from their defaults
C17_DefaultsAreRefused ==
    [][/\ (submits' = submits + 1 /\ values = defaultValues) =>
              /\ sent' = sent
              /\ inflight' = inflight
              /\ DOMAIN formState'.errors =
                     {"fullName", "email", "gamingPlatforms"}
       /\ TimerStep => values' = defaultValues
       /\ sent' = sent + 1 =>
              /\ values.fullName # defaultValues.fullName
              /\ values.email # defaultValues.email
              /\ values.gamingPlatforms # defaultValues.gamingPlatforms]_vars

\* a request succeeded, the timer reset the form, and the submit event that
\* followed without any edit was refused for the three required entries
C17_Witness ==
    /\ toasts = <<SuccessToast>>
    /\ timers = <<>>
    /\ submits = 2
    /\ sent = 1
    /\ values = defaultValues
    /\ DOMAIN formState.errors = {"fullName", "email", "gamingPlatforms"}

====
